---- MODULE Spec2Model ----
(***************************************************************************)
(* odspdfcrop.py: split a directory of numbered PDF files into one-page    *)
(* files (renumbering the stream), then crop each file's margins.          *)
(*                                                                         *)
(* A file name is the sequence of the characters before its ".pdf"         *)
(* extension, e.g. a12.pdf is <<"a","1","2">>.  The reserved flags _SPLIT  *)
(* and _CROP of staged files are single tokens of that sequence, so        *)
(* a1_SPLIT.pdf is <<"a","1","_SPLIT">>.  Names hold no "." before the     *)
(* extension.                                                              *)
(***************************************************************************)
EXTENDS Integers, Sequences, FiniteSets, TLC

\* ------------------------------------------------------------------ bounds
\* largest number of pages of a file in the input directory
MaxPages == 3
\* largest number of pages in the input directory, all files together, of
\* a run that stops when crop() has started its workers (SpecSplit)
MaxTotal == 5
\* the same for a whole run (Spec)
MaxCropTotal == 3
MaxNameLen == 4

VARIABLES
  dir,        \* the working directory: file name -> file content
  nosplit,    \* args.nosplit
  pc,         \* position of the parent process
  pdffiles,   \* self.pdffiles
  readers,    \* __init__'s processes: name -> "running" | "done"
  q,          \* the multiprocessing.Queue of __init__
  file_info,  \* self.file_info
  cropped,    \* self.cropped
  stem_info,  \* split()'s stem_info
  todo,       \* stems the loop of split() has still to visit
  pending,    \* rename_files' pdffiles still to visit
  processes,  \* crop()'s processes: name -> "running" | "done"
  gsout,      \* what Ghostscript printed for each crop worker
  dir0,       \* history: the directory as the run found it
  splitlog,   \* history: per stem, the pages split() wrote and the files it skipped
  dirc        \* history: the directory as crop() found it

vars == <<dir, nosplit, pc, pdffiles, readers, q, file_info, cropped, stem_info,
          todo, pending, processes, gsout, dir0, splitlog, dirc>>

\* ------------------------------------------------------------ characters
DigitChar == <<"0", "1", "2", "3", "4", "5", "6", "7", "8", "9">>

IsDigit(c) == \E i \in 1..10 : DigitChar[i] = c

\* \w of the pattern: letters, digits and the underscore; the staged flags
\* are made of letters and an underscore
IsWord(c) == IsDigit(c) \/ c \in {"a", "b", "c", "x", "_", "_SPLIT", "_CROP"}

DigitVal(c) == CHOOSE d \in 0..9 : DigitChar[d + 1] = c

\* '%d' % n
RECURSIVE Dec(_)
Dec(n) == IF n < 10 THEN <<DigitChar[n + 1]>>
          ELSE Dec(n \div 10) \o <<DigitChar[(n % 10) + 1]>>

\* int(digits)
RECURSIVE ParseInt(_)
ParseInt(s) == IF s = <<>> THEN 0
               ELSE ParseInt(SubSeq(s, 1, Len(s) - 1)) * 10 + DigitVal(s[Len(s)])

\* -------------------------------------------------------- the classifier
\* re.search(pat, name) with pat = ([\w_\d]+?)(\d+)\.pdf : the pairs <<i, j>>
\* such that name[i..j-1] are word characters and name[j..] are the digits
\* that run up to ".pdf"
PatCandidates(name) ==
  {ij \in (1..Len(name)) \X (1..Len(name)) :
     /\ ij[1] < ij[2]
     /\ \A k \in ij[1]..(ij[2] - 1) : IsWord(name[k])
     /\ \A k \in ij[2]..Len(name) : IsDigit(name[k])}

Min(S) == CHOOSE x \in S : \A y \in S : x <= y

\* the match re.search returns: leftmost start, then the shortest group 1
PatSearch(name) ==
  LET C == PatCandidates(name) IN
  IF C = {} THEN [matched |-> FALSE, g1 |-> <<>>, g2 |-> <<>>]
  ELSE LET i == Min({ij[1] : ij \in C})
           j == Min({ij[2] : ij \in {c \in C : c[1] = i}})
       IN [matched |-> TRUE,
           g1 |-> SubSeq(name, i, j - 1),
           g2 |-> SubSeq(name, j, Len(name))]

get_filedigit(fdict) ==
  LET matched == PatSearch(fdict.name) IN
  IF matched.matched THEN ParseInt(matched.g2) ELSE 0

\* the stem of one name: group 1, or os.path.splitext(name)[0]
StemOf(name) ==
  LET filedigit == PatSearch(name) IN
  IF filedigit.matched THEN filedigit.g1 ELSE name

get_stems(files) == {StemOf(name) : name \in files}

\* re.match(r'%s\d+\.pdf' % stem, x)
StemMatch(stem, x) ==
  /\ Len(x) > Len(stem)
  /\ SubSeq(x, 1, Len(stem)) = stem
  /\ \A k \in (Len(stem) + 1)..Len(x) : IsDigit(x[k])

\* sorted(l, key=get_filedigit): a stable sort
RECURSIVE Insert(_, _)
Insert(s, x) ==
  IF s = <<>> THEN <<x>>
  ELSE IF get_filedigit(s[Len(s)]) <= get_filedigit(x) THEN Append(s, x)
  ELSE Append(Insert(SubSeq(s, 1, Len(s) - 1), x), s[Len(s)])

RECURSIVE SortedByDigit(_)
SortedByDigit(l) ==
  IF l = <<>> THEN <<>>
  ELSE Insert(SortedByDigit(SubSeq(l, 1, Len(l) - 1)), l[Len(l)])

\* --------------------------------------------------------------- helpers
RECURSIVE SumSeq(_)
SumSeq(s) == IF s = <<>> THEN 0 ELSE s[1] + SumSeq(Tail(s))

\* Filter with a fault: the test "if x['name'] in stem_matches" is forgotten
FilterAll(s, S) == s

RECURSIVE Filter(_, _)
Filter(s, S) ==
  IF s = <<>> THEN <<>>
  ELSE IF s[1].name \in S THEN <<s[1]>> \o Filter(Tail(s), S) ELSE Filter(Tail(s), S)

\* f with x mapped to v, x added to the domain when it is not in it
Put(f, x, v) == [y \in (DOMAIN f) \cup {x} |-> IF y = x THEN v ELSE f[y]]

\* f without x
Drop(f, x) == [y \in (DOMAIN f) \ {x} |-> f[y]]

\* Staged with a fault: the output is written under the target name itself
StagedInPlace(name, flag) == name

\* '%s_SPLIT.pdf' % rname, splitext(input_filename)[0] + '_CROP.pdf'
Staged(name, flag) == Append(name, flag)

IsStaged(name, flag) == Len(name) > 0 /\ name[Len(name)] = flag

\* name.replace(extstring, '.pdf')
Unstaged(name) == SubSeq(name, 1, Len(name) - 1)

\* ----------------------------------------------------------- the input
\* the names the input directory draws from: a.pdf, a1.pdf, a2.pdf, b.pdf
InitNames == {<<"a">>, <<"a", "1">>, <<"a", "2">>, <<"b">>}

\* a file as the run finds it: its pages, each with the media box this run
\* gave it (<<>>: the box it came with), and whether its document
\* information holds /Cropped
NewFile(name, n, marked) ==
  [pages |-> [i \in 1..n |-> [src |-> name, idx |-> i - 1, box |-> <<>>]],
   cropped |-> marked,
   valid |-> TRUE]

RECURSIVE TotalPages(_)
TotalPages(d) ==
  IF DOMAIN d = {} THEN 0
  ELSE LET x == CHOOSE y \in DOMAIN d : TRUE
       IN Len(d[x].pages) + TotalPages([y \in (DOMAIN d) \ {x} |-> d[y]])

InitDirs(total) ==
  {d \in UNION {
      {[name \in D |-> NewFile(name, n[name], m[name])] :
         n \in [D -> 1..MaxPages], m \in [D -> BOOLEAN]} :
      D \in SUBSET InitNames} : TotalPages(d) <= total}

\* the state before main() runs on directory d with args.nosplit = ns
Start(d, ns) ==
  /\ dir = d
  /\ nosplit = ns
  /\ pc = "start"
  /\ pdffiles = {}
  /\ readers = <<>>
  /\ q = <<>>
  /\ file_info = <<>>
  /\ cropped = {}
  /\ stem_info = <<>>
  /\ todo = {}
  /\ pending = {}
  /\ processes = <<>>
  /\ gsout = <<>>
  /\ dir0 = dir
  /\ splitlog = <<>>
  /\ dirc = <<>>

Init == \E d \in InitDirs(MaxCropTotal), ns \in BOOLEAN : Start(d, ns)

\* a run with the split stage, on a larger directory
InitSplit == \E d \in InitDirs(MaxTotal) : Start(d, FALSE)

\* ------------------------------------------------------------- __init__
\* os.listdir(source_dir) filtered by endswith('.pdf'): every name of dir
ListPdf == DOMAIN dir

\* PDFFixer.__init__ up to its first q.get(): list the directory and start
\* one reader per file
CatalogStart ==
  /\ pc = "start"
  /\ pdffiles' = ListPdf
  /\ readers' = [name \in ListPdf |-> "running"]
  /\ pc' = IF ListPdf = {} THEN "main" ELSE "catalog"
  /\ UNCHANGED <<dir, nosplit, q, file_info, cropped, stem_info, todo, pending,
                 processes, gsout, dir0, splitlog, dirc>>

\* PDFFixer.read: PdfFileReader raises on a file it cannot open or parse, and
\* read has no handler, so the worker ends before q.put
read(name) ==
  /\ name \in DOMAIN readers
  /\ readers[name] = "running"
  /\ IF dir[name].valid
       THEN /\ q' = Append(q, [name |-> name,
                               cropped |-> dir[name].cropped,
                               pages |-> Len(dir[name].pages)])
            /\ readers' = [readers EXCEPT ![name] = "done"]
       ELSE /\ q' = q
            /\ readers' = [readers EXCEPT ![name] = "died"]
  /\ UNCHANGED <<dir, nosplit, pc, pdffiles, file_info, cropped, stem_info, todo,
                 pending, processes, gsout, dir0, splitlog, dirc>>

\* one turn of __init__'s loop over q.get()
CatalogGet ==
  /\ pc = "catalog"
  /\ q # <<>>
  /\ LET item == Head(q) IN
       /\ file_info' = Append(file_info, [name |-> item.name, pages |-> item.pages])
       /\ cropped' = IF item.cropped THEN cropped \cup {item.name} ELSE cropped
  /\ q' = Tail(q)
  /\ pc' = IF Len(file_info) + 1 = Cardinality(DOMAIN readers) THEN "main" ELSE "catalog"
  /\ UNCHANGED <<dir, nosplit, pdffiles, readers, stem_info, todo, pending,
                 processes, gsout, dir0, splitlog, dirc>>

\* ------------------------------------------------------------ write_page
\* write_page with a fault: /Cropped is stamped whatever crop says
write_pageMarked(d, filename, obj, pagenum, crop) ==
  Put(d, filename, [pages |-> <<obj.pages[pagenum + 1]>>, cropped |-> TRUE,
                    valid |-> TRUE])

\* write_page(filename, obj, pagenum, crop): the directory with the one-page
\* file written; /Cropped is stamped only when crop is set
write_page(d, filename, obj, pagenum, crop) ==
  Put(d, filename, [pages |-> <<obj.pages[pagenum + 1]>>, cropped |-> crop,
                    valid |-> TRUE])

\* ---------------------------------------------------------- rename_files
\* the listing rename_files takes: the names that end with extstring
RenameListing(flag) == {x \in DOMAIN dir : IsStaged(x, flag)}

\* shutil.copy(src, tgt); os.unlink(src)
CopyUnlink(d, src) == Drop(Put(d, Unstaged(src), d[src]), src)

\* one turn of rename_files' loop
RenameFile(name) ==
  /\ pc \in {"splitcommit", "cropcommit"}
  /\ name \in pending
  /\ dir' = IF name \in DOMAIN dir THEN CopyUnlink(dir, name) ELSE dir
  /\ pending' = pending \ {name}
  /\ UNCHANGED <<nosplit, pc, pdffiles, readers, q, file_info, cropped, stem_info,
                 todo, processes, gsout, dir0, splitlog, dirc>>

\* what shutil.copy leaves at tgt when it raises after opening it for
\* writing: a file that is not a complete PDF document
Partial(f) == [f EXCEPT !.valid = FALSE]

\* the directory after a turn of the loop in which an I/O call raises:
\* shutil.copy before it touches tgt, shutil.copy part way through writing
\* tgt, or os.unlink after the copy is complete
CopyFailures(d, src) ==
  {d, Put(d, Unstaged(src), Partial(d[src])), Put(d, Unstaged(src), d[src])}

\* a turn of rename_files' loop that raises: rename_files has no handler and
\* neither has its caller, so the exception ends the run
RenameFail(name) ==
  /\ pc \in {"splitcommit", "cropcommit"}
  /\ name \in pending
  /\ name \in DOMAIN dir
  /\ dir' \in CopyFailures(dir, name)
  /\ pc' = "aborted"
  /\ UNCHANGED <<nosplit, pdffiles, readers, q, file_info, cropped, stem_info,
                 todo, pending, processes, gsout, dir0, splitlog, dirc>>

\* rename_files returns: split() returns to main, or crop() does
RenameReturn ==
  /\ pc \in {"splitcommit", "cropcommit"}
  /\ pending = {}
  /\ pc' = IF pc = "splitcommit" THEN "crop" ELSE "done"
  /\ UNCHANGED <<dir, nosplit, pdffiles, readers, q, file_info, cropped, stem_info,
                 todo, pending, processes, gsout, dir0, splitlog, dirc>>

\* ------------------------------------------------------------------ main
\* main with nosplit set: split() is not called
MainNoSplit ==
  /\ pc = "main"
  /\ nosplit
  /\ pc' = "crop"
  /\ UNCHANGED <<dir, nosplit, pdffiles, readers, q, file_info, cropped, stem_info,
                 todo, pending, processes, gsout, dir0, splitlog, dirc>>

\* ----------------------------------------------------------------- split
\* the files of a stem: '<stem>.pdf' and the listed names <stem><digits>.pdf
stem_matches(stem) == {stem} \cup {x \in pdffiles : StemMatch(stem, x)}

StemInfo == [stem \in get_stems(pdffiles) |-> Filter(file_info, stem_matches(stem))]

\* main calls split(), which builds stem_info
SplitBegin ==
  /\ pc = "main"
  /\ ~nosplit
  /\ stem_info' = StemInfo
  /\ todo' = get_stems(pdffiles)
  /\ pc' = "split"
  /\ UNCHANGED <<dir, nosplit, pdffiles, readers, q, file_info, cropped, pending,
                 processes, gsout, dir0, splitlog, dirc>>

\* "if no file in the list contains multiple pages, do nothing"
NothingToSplit(members) ==
  SumSeq([i \in 1..Len(members) |-> members[i].pages]) = Len(members)

\* FirstDigit with a fault: the counter starts at 1
FirstDigitOne(files_info) == 1

\* the value filedigit starts with
FirstDigit(files_info) == 0

\* start_splitting after the test of one member
StartSplitting(start_splitting, pages) == start_splitting \/ pages > 1

\* rname: '%s.pdf' % stem, or '%s%d.pdf' % (stem, filedigit)
RName(stem, filedigit) == IF filedigit = 0 THEN stem ELSE stem \o Dec(filedigit)

\* Uncrop with a fault: the name is left in self.cropped
UncropNot(crp, rname) == crp

\* self.cropped after "if self.cropped.count(rname): self.cropped.remove(rname)"
Uncrop(crp, rname) == crp \ {rname}

\* the page loop "for pagenum in range(0, pages)" of one member; st is
\* [dir, cropped, filedigit, plan, skipped]
RECURSIVE WritePages(_, _, _, _, _)
WritePages(st, stem, pdfdict, obj, pagenum) ==
  IF pagenum >= pdfdict.pages THEN st
  ELSE LET rname == RName(stem, st.filedigit)
           fname == Staged(rname, "_SPLIT")
       IN WritePages([st EXCEPT !.dir = write_page(st.dir, fname, obj, pagenum, FALSE),
                                !.cropped = Uncrop(st.cropped, rname),
                                !.filedigit = st.filedigit + 1,
                                !.plan = Append(st.plan, [rname |-> rname,
                                                          src |-> pdfdict.name,
                                                          pagenum |-> pagenum])],
                     stem, pdfdict, obj, pagenum + 1)

\* the loop over files_info
RECURSIVE WalkFiles(_, _, _, _)
WalkFiles(st, stem, files_info, start_splitting) ==
  IF files_info = <<>> THEN st
  ELSE LET pdfdict == Head(files_info)
           start == StartSplitting(start_splitting, pdfdict.pages)
       IN IF ~start
          THEN WalkFiles([st EXCEPT !.filedigit = st.filedigit + 1,
                                    !.skipped = Append(st.skipped, pdfdict.name)],
                         stem, Tail(files_info), start)
          ELSE WalkFiles(WritePages(st, stem, pdfdict, st.dir[pdfdict.name], 0),
                         stem, Tail(files_info), start)

\* one turn of split()'s loop over stem_info
SplitStem(stem) ==
  /\ pc = "split"
  /\ stem \in todo
  /\ todo' = todo \ {stem}
  /\ IF NothingToSplit(stem_info[stem])
     THEN /\ splitlog' = Put(splitlog, stem, [plan |-> <<>>, skipped |-> <<>>, walked |-> FALSE])
          /\ UNCHANGED <<dir, cropped>>
     ELSE LET files_info == SortedByDigit(stem_info[stem])
              st == WalkFiles([dir |-> dir, cropped |-> cropped,
                               filedigit |-> FirstDigit(files_info),
                               plan |-> <<>>, skipped |-> <<>>],
                              stem, files_info, FALSE)
          IN /\ dir' = st.dir
             /\ cropped' = st.cropped
             /\ splitlog' = Put(splitlog, stem, [plan |-> st.plan, skipped |-> st.skipped,
                                                 walked |-> TRUE])
  /\ UNCHANGED <<nosplit, pc, pdffiles, readers, q, file_info, stem_info, pending,
                 processes, gsout, dir0, dirc>>

\* the loop of split() is over: rename_files(source_dir, '_SPLIT.pdf') lists
SplitRename ==
  /\ pc = "split"
  /\ todo = {}
  /\ pending' = RenameListing("_SPLIT")
  /\ pc' = "splitcommit"
  /\ UNCHANGED <<dir, nosplit, pdffiles, readers, q, file_info, cropped, stem_info,
                 todo, processes, gsout, dir0, splitlog, dirc>>

\* ------------------------------------------------------------------ crop
\* CropSelect with a fault: the test "x not in self.cropped" is forgotten
CropSelectAll == ListPdf

\* the files crop() selects
CropSelect == {x \in ListPdf : x \notin cropped}

\* crop() up to its first join(): list the directory and start one worker
\* per selected file
CropStart ==
  /\ pc = "crop"
  /\ processes' = [name \in CropSelect |-> "running"]
  /\ dirc' = dir
  /\ pc' = "cropjoin"
  /\ UNCHANGED <<dir, nosplit, pdffiles, readers, q, file_info, cropped, stem_info,
                 todo, pending, gsout, dir0, splitlog>>

\* What Ghostscript prints after the last 'HiResBoundingBox:' as tokens; a
\* number is held in halves (val = 3 is 1.5).  ok is FALSE when the call
\* raises: a non-zero exit status, or no 'HiResBoundingBox:' in the output.
Num(v) == [num |-> TRUE, val |-> v]
Junk == [num |-> FALSE, val |-> 0]

GsOutputs ==
  {[ok |-> TRUE, tokens |-> <<Num(2), Num(2), Num(8), Num(8)>>],
   [ok |-> TRUE, tokens |-> <<Num(0), Num(0), Num(0), Num(0)>>],
   [ok |-> TRUE, tokens |-> <<Num(2), Junk, Num(8), Num(8)>>],
   [ok |-> TRUE, tokens |-> <<Num(2), Num(2), Num(8), Num(8), Junk>>],
   [ok |-> TRUE, tokens |-> <<Num(1), Num(0), Num(0), Num(0)>>],
   [ok |-> FALSE, tokens |-> <<>>]}

\* get_bbox on what Ghostscript printed: the bounds, in halves
get_bbox(out) ==
  LET str_bounds == IF Len(out.tokens) > 4 THEN SubSeq(out.tokens, 1, 4) ELSE out.tokens
  IN IF \E i \in 1..Len(str_bounds) : ~str_bounds[i].num
     THEN <<>>
     ELSE [i \in 1..Len(str_bounds) |-> str_bounds[i].val]

\* int(x) of a number held in halves: truncation towards zero
IntOf(h) == IF h >= 0 THEN h \div 2 ELSE -((-h) \div 2)

\* HasBox with a fault: the test of int(sum(bounds)) is forgotten
HasBoxAny(bounds) == bounds # <<>>

\* "if bounds and int(sum(bounds))"
HasBox(bounds) == bounds # <<>> /\ IntOf(SumSeq(bounds)) # 0

\* crop_process(name) when Ghostscript prints out: the directory it leaves.
\* The worker dies with an exception, writing nothing, when get_bbox raises,
\* when the bounds are not four values, or when the file has no page.
crop_process(d, name, out) ==
  IF ~out.ok THEN d
  ELSE LET obj == d[name]
           bounds == get_bbox(out)
       IN IF ~HasBox(bounds) THEN d
          ELSE IF Len(bounds) # 4 \/ Len(obj.pages) = 0 THEN d
          ELSE write_page(d, Staged(name, "_CROP"),
                          [obj EXCEPT !.pages[1].box = bounds], 0, TRUE)

\* one crop worker, from its start to its end
CropProcess(name) ==
  /\ name \in DOMAIN processes
  /\ processes[name] = "running"
  /\ \E out \in GsOutputs :
       /\ dir' = crop_process(dir, name, out)
       /\ gsout' = Put(gsout, name, out)
  /\ processes' = [processes EXCEPT ![name] = "done"]
  /\ UNCHANGED <<nosplit, pc, pdffiles, readers, q, file_info, cropped, stem_info,
                 todo, pending, dir0, splitlog, dirc>>

\* Joined with a fault: crop() does not join its workers
JoinedNot == TRUE

\* every processes[name].join() of crop() has returned
Joined == \A name \in DOMAIN processes : processes[name] = "done"

\* crop() after its joins: rename_files(source_dir, '_CROP.pdf') lists
CropRename ==
  /\ pc = "cropjoin"
  /\ Joined
  /\ pending' = RenameListing("_CROP")
  /\ pc' = "cropcommit"
  /\ UNCHANGED <<dir, nosplit, pdffiles, readers, q, file_info, cropped, stem_info,
                 todo, processes, gsout, dir0, splitlog, dirc>>

\* ------------------------------------------------------ the specification
Next ==
  \/ CatalogStart
  \/ \E name \in DOMAIN readers : read(name)
  \/ CatalogGet
  \/ MainNoSplit
  \/ SplitBegin
  \/ \E stem \in get_stems(pdffiles) : SplitStem(stem)
  \/ SplitRename
  \/ \E name \in pending : RenameFile(name)
  \/ RenameReturn
  \/ CropStart
  \/ \E name \in DOMAIN processes : CropProcess(name)
  \/ CropRename

Spec == Init /\ [][Next]_vars

\* the run up to the start of the crop workers
NextSplit ==
  \/ CatalogStart
  \/ \E name \in DOMAIN readers : read(name)
  \/ CatalogGet
  \/ SplitBegin
  \/ \E stem \in get_stems(pdffiles) : SplitStem(stem)
  \/ SplitRename
  \/ \E name \in pending : RenameFile(name)
  \/ RenameReturn
  \/ CropStart

SpecSplit == InitSplit /\ [][NextSplit]_vars

\* the run up to the return of split()'s rename_files, where an I/O call of
\* rename_files may raise
InitCommit == \E d \in InitDirs(MaxCropTotal) : Start(d, FALSE)

NextCommit ==
  \/ CatalogStart
  \/ \E name \in DOMAIN readers : read(name)
  \/ CatalogGet
  \/ SplitBegin
  \/ \E stem \in get_stems(pdffiles) : SplitStem(stem)
  \/ SplitRename
  \/ \E name \in pending : RenameFile(name)
  \/ \E name \in pending : RenameFail(name)
  \/ RenameReturn

SpecCommit == InitCommit /\ [][NextCommit]_vars

\* the classifier on its own: main up to the grouping of split(), on a
\* directory that holds one one-page file, whose name is any sequence of a
\* letter, a character that is not a word character, and two digits
ClassifyChars == {"a", "-", "0", "1"}

ClassifyNames == UNION {[1..n -> ClassifyChars] : n \in 1..MaxNameLen}

InitClassify ==
  \E name \in ClassifyNames :
    Start([x \in {name} |-> NewFile(name, 1, FALSE)], FALSE)

NextClassify ==
  \/ CatalogStart
  \/ \E name \in DOMAIN readers : read(name)
  \/ CatalogGet
  \/ SplitBegin

SpecClassify == InitClassify /\ [][NextClassify]_vars

\* the catalog alone, on directories where some .pdf files are not PDF
\* documents that pyPdf can open
Damage(d, B) == [x \in DOMAIN d |-> IF x \in B THEN [d[x] EXCEPT !.valid = FALSE]
                                               ELSE d[x]]

InitCatalog ==
  \E d \in InitDirs(MaxCropTotal) :
    \E B \in SUBSET DOMAIN d : Start(Damage(d, B), FALSE)

NextCatalog ==
  \/ CatalogStart
  \/ \E name \in DOMAIN readers : read(name)
  \/ CatalogGet

\* every started worker process gets to run and the parent's loop keeps
\* taking from the queue
SpecCatalog == InitCatalog /\ [][NextCatalog]_vars /\ WF_vars(NextCatalog)

\* ================================================================ claims
\* the ordinal and the files of a stem, by the classifier
Ord(name) == get_filedigit([name |-> name])

StemFiles(d, stem) ==
  {x \in DOMAIN d : ~IsStaged(x, "_SPLIT") /\ ~IsStaged(x, "_CROP") /\ StemOf(x) = stem}

\* the names of S in ascending ordinal order
RECURSIVE ByOrdinal(_)
ByOrdinal(S) ==
  IF S = {} THEN <<>>
  ELSE LET x == CHOOSE y \in S : \A z \in S : Ord(y) <= Ord(z)
       IN <<x>> \o ByOrdinal(S \ {x})

RECURSIVE PagesOf(_, _)
PagesOf(d, names) ==
  IF names = <<>> THEN <<>> ELSE d[Head(names)].pages \o PagesOf(d, Tail(names))

\* the page stream of a stem: its files' pages, read in ascending ordinal order
Stream(d, stem) == PagesOf(d, ByOrdinal(StemFiles(d, stem)))

\* split() and its commit are over
SplitDone == ~nosplit /\ pc \in {"crop", "cropjoin", "cropcommit", "done"}

\* C1 (as claimed): for every stem-group, whatever the page counts and
\* ordinals of its members, after split() and its commit the stem's pages
\* read in ascending ordinal order are the page sequence they were before:
\* no page is lost, duplicated or reordered.
C1_StreamPreserved ==
  SplitDone => \A stem \in get_stems(DOMAIN dir0) : Stream(dir, stem) = Stream(dir0, stem)

\* C2 (as claimed): after split() and its commit no .pdf file of the
\* directory holds more than one page.
C2_OnePagePerFile ==
  SplitDone => \A x \in DOMAIN dir : Len(dir[x].pages) <= 1

\* the members of a stem as the run found them, in ascending ordinal order
Members(stem) == ByOrdinal(StemFiles(dir0, stem))

\* the stems whose loop turn in split() is over and walked the members
Walked == {stem \in DOMAIN splitlog : splitlog[stem].walked}

\* the index of the first member with more than one page (0: there is none)
FirstMulti(stem) ==
  LET M == Members(stem)
      I == {i \in 1..Len(M) : Len(dir0[M[i]].pages) > 1}
  IN IF I = {} THEN 0 ELSE Min(I)

\* C5 (as claimed): the output ordinal counter of a stem starts at the
\* ordinal of the stem's first member, so the target ordinal of the first
\* page of the first multi-page member is the first member's ordinal plus the
\* number of members passed through before it.
C5_CounterStartsAtFirstOrdinal ==
  \A stem \in Walked :
    splitlog[stem].plan # <<>> =>
      Ord(splitlog[stem].plan[1].rname)
        = Ord(Members(stem)[1]) + Len(splitlog[stem].skipped)

\* the pages of the members M[k..], member by member and page by page
RECURSIVE PagesFrom(_, _)
PagesFrom(M, k) ==
  IF k > Len(M) THEN <<>>
  ELSE [i \in 1..Len(dir0[M[k]].pages) |-> [src |-> M[k], pagenum |-> i - 1]]
       \o PagesFrom(M, k + 1)

\* C4 (as claimed): walking a stem's members in ascending ordinal order,
\* every one-page member before the first multi-page member is passed through
\* (no staged file is written from it and its name is not a target), and
\* every member from the first multi-page member onward, one-page members
\* included, has each of its pages written as a staged one-page file, at
\* consecutive target ordinals.
C4_SplitFromFirstMulti ==
  \A stem \in Walked :
    LET M == Members(stem)
        k == FirstMulti(stem)
        plan == splitlog[stem].plan
    IN /\ k > 0
       /\ splitlog[stem].skipped = SubSeq(M, 1, k - 1)
       /\ \A i \in 1..(k - 1), j \in 1..Len(plan) :
            plan[j].src # M[i] /\ plan[j].rname # M[i]
       /\ [j \in 1..Len(plan) |-> [src |-> plan[j].src, pagenum |-> plan[j].pagenum]]
            = PagesFrom(M, k)
       /\ \A j \in 1..(Len(plan) - 1) :
            Ord(plan[j + 1].rname) = Ord(plan[j].rname) + 1
       /\ pc = "split" =>
            \A j \in 1..Len(plan) :
              /\ Staged(plan[j].rname, "_SPLIT") \in DOMAIN dir
              /\ dir[Staged(plan[j].rname, "_SPLIT")].pages
                   = <<dir0[plan[j].src].pages[plan[j].pagenum + 1]>>

\* every file the run found has one page and bears the cropped marker
AllFixed == \A x \in DOMAIN dir0 : Len(dir0[x].pages) = 1 /\ dir0[x].cropped

\* C3: a whole run (catalog, split, its commit, crop, its commit) on a
\* directory whose files all have one page and bear the cropped marker writes
\* no staged file, starts no crop worker and leaves every file's content and
\* marker as they were.
C3_Idempotent ==
  AllFixed => /\ dir = dir0
              /\ DOMAIN processes = {}
              /\ DOMAIN gsout = {}
              /\ \A stem \in DOMAIN splitlog : splitlog[stem].plan = <<>>

\* a whole run with the split stage is over, on a directory of two stems whose
\* files all have one page and the marker
C3_Witness ==
  /\ AllFixed
  /\ Cardinality(get_stems(DOMAIN dir0)) = 2
  /\ Cardinality(DOMAIN dir0) = 3
  /\ ~nosplit
  /\ pc = "done"

\* every member of the stem has exactly one page
OnePageStem(stem) == \A x \in StemFiles(dir0, stem) : Len(dir0[x].pages) = 1

\* C6: for a stem-group whose members all have exactly one page, split()
\* writes no staged file for that stem, leaves its files as they were and
\* removes none of its names from the cropped set, whatever the order of the
\* catalog results.
C6_OnePageStemUntouched ==
  \A stem \in get_stems(DOMAIN dir0) :
    OnePageStem(stem) =>
      /\ \A x \in DOMAIN dir : IsStaged(x, "_SPLIT") => StemOf(Unstaged(x)) # stem
      /\ \A x \in StemFiles(dir0, stem) : x \in DOMAIN dir /\ dir[x] = dir0[x]
      /\ StemFiles(dir, stem) = StemFiles(dir0, stem)
      /\ stem \in DOMAIN splitlog => splitlog[stem].plan = <<>>
      /\ pc \notin {"start", "catalog"} =>
           \A x \in StemFiles(dir0, stem) : x \in cropped <=> dir0[x].cropped

\* split() and its commit are over; a stem of two one-page files, one of them
\* marked, was left alone while another stem was split
C6_Witness ==
  /\ pc = "crop"
  /\ \E stem \in get_stems(DOMAIN dir0) :
       /\ OnePageStem(stem)
       /\ Cardinality(StemFiles(dir0, stem)) = 2
       /\ \E x \in StemFiles(dir0, stem) : dir0[x].cropped
       /\ \E x \in StemFiles(dir0, stem) : ~dir0[x].cropped
  /\ \E stem \in Walked : splitlog[stem].plan # <<>>

\* the names split() made targets of its output
Targets == UNION {{splitlog[stem].plan[j].rname : j \in 1..Len(splitlog[stem].plan)} :
                  stem \in DOMAIN splitlog}

\* C7: after split(), no target name of a split output is in the cropped
\* set, even if a file of that name existed and was marked before the run;
\* so every file split output replaced is selected by the crop stage.
C7_TargetsNotCropped ==
  /\ Targets \cap cropped = {}
  /\ pc = "cropjoin" => /\ Targets \subseteq DOMAIN processes
                        /\ \A x \in Targets : ~dir[x].cropped

\* crop() has started its workers, one of them for a target that was a marked
\* file before the run
C7_Witness ==
  /\ pc = "cropjoin"
  /\ \E x \in Targets : x \in DOMAIN dir0 /\ dir0[x].cropped /\ x \in DOMAIN processes

\* crop() has listed the directory and started its workers
CropStarted == pc \in {"cropjoin", "cropcommit", "done"}

\* C8: crop() starts a worker for exactly the .pdf files present after the
\* split commit whose names are not in the cropped set; a file whose name is
\* in the cropped set is never passed to Ghostscript and the crop stage does
\* not rewrite it.
C8_CropSelection ==
  CropStarted =>
    /\ DOMAIN processes = {x \in DOMAIN dirc : x \notin cropped}
    /\ DOMAIN gsout \subseteq DOMAIN processes
    /\ \A x \in (DOMAIN dirc) \cap cropped :
         /\ x \notin DOMAIN gsout
         /\ Staged(x, "_CROP") \notin DOMAIN dir
         /\ x \in DOMAIN dir /\ dir[x] = dirc[x]

\* a whole run is over in which crop() found a file in the cropped set and
\* cropped another one
C8_Witness ==
  /\ pc = "done"
  /\ \E x \in (DOMAIN dirc) \cap cropped : TRUE
  /\ \E y \in DOMAIN processes : dir[y] # dirc[y]

\* the first four tokens Ghostscript printed
First4(out) == IF Len(out.tokens) > 4 THEN SubSeq(out.tokens, 1, 4) ELSE out.tokens

\* the response gives no box: the call failed, nothing follows the label, or
\* a token among the first four is no number
NoBox(out) ==
  \/ ~out.ok
  \/ out.tokens = <<>>
  \/ \E i \in 1..Len(First4(out)) : ~First4(out)[i].num

\* the response gives four values whose sum is zero
ZeroSum(out) ==
  /\ ~NoBox(out)
  /\ Len(First4(out)) = 4
  /\ First4(out)[1].val + First4(out)[2].val + First4(out)[3].val + First4(out)[4].val = 0

\* the response gives four values whose sum is, as an integer, not zero
Usable(out) ==
  /\ ~NoBox(out)
  /\ Len(First4(out)) = 4
  /\ LET h == First4(out)[1].val + First4(out)[2].val + First4(out)[3].val
                + First4(out)[4].val
     IN h >= 2 \/ h <= -2

\* the file crop_process writes for file f and a usable response
CroppedFile(f, out) ==
  [pages |-> <<[f.pages[1] EXCEPT !.box = [i \in 1..4 |-> First4(out)[i].val]]>>,
   cropped |-> TRUE,
   valid |-> TRUE]

\* C9: if Ghostscript's response for a selected file X is unparsable or
\* degenerate (no box, or four values whose sum is zero), then after the crop
\* stage and its commit X has the content it had and does not bear the cropped
\* marker, and every other selected file is still processed and committed.
C9_DegenerateLeavesFile ==
  pc = "done" =>
    /\ DOMAIN gsout = DOMAIN processes
    /\ \A x \in DOMAIN gsout :
         /\ (NoBox(gsout[x]) \/ ZeroSum(gsout[x])) =>
              /\ x \in DOMAIN dir
              /\ dir[x] = dirc[x]
              /\ ~dir[x].cropped
         /\ Usable(gsout[x]) => x \in DOMAIN dir /\ dir[x] = CroppedFile(dirc[x], gsout[x])
    /\ \A x \in DOMAIN dir : ~IsStaged(x, "_CROP")

\* a whole run is over in which one selected file had a response without a
\* box, one a zero box, and a third was cropped
C9_Witness ==
  /\ pc = "done"
  /\ \E x \in DOMAIN gsout : NoBox(gsout[x]) /\ gsout[x].ok
  /\ \E x \in DOMAIN gsout : ZeroSum(gsout[x])
  /\ \E y \in DOMAIN gsout : Usable(gsout[y]) /\ dir[y].cropped

\* a crop worker is still running
Running == \E name \in DOMAIN processes : processes[name] = "running"

\* rename_files(source_dir, '_CROP.pdf') has been called
CropCommitting == pc \in {"cropcommit", "done"}

\* C10: in every interleaving of the crop stage rename_files is called for
\* the crop flag once, and only after every crop worker has finished: no crop
\* worker is running while a staged file has been copied over its target or
\* deleted.
C10_CommitAfterJoin ==
  [][/\ (CropCommitting' /\ ~CropCommitting) => (pc = "cropjoin" /\ ~Running)
     /\ CropCommitting => (CropCommitting' /\ ~Running')
     /\ Running' =>
          \A x \in DOMAIN processes' :
            /\ x \in DOMAIN dir' /\ dir'[x] = dirc'[x]
            /\ (x \in DOMAIN gsout' /\ Usable(gsout'[x])) =>
                 Staged(x, "_CROP") \in DOMAIN dir']_vars

\* the commit of the crop stage has copied one staged file and has another
\* still to copy, after three workers ran
C10_Witness ==
  /\ pc = "cropcommit"
  /\ Cardinality(DOMAIN processes) = 3
  /\ pending # {}
  /\ \E x \in DOMAIN processes : dir[x] # dirc[x]

\* ------------------------------------------------------------------ C11
\* C11: the catalog never leaves the parent waiting forever on the result
\* queue, a worker that cannot open or parse its file included: when every
\* worker has ended, the parent has, or still finds on the queue, one report
\* for every listed .pdf file
C11_NeverWaitsForever ==
  (pc = "catalog" /\ \A name \in DOMAIN readers : readers[name] # "running")
     => Len(file_info) + Len(q) = Cardinality(pdffiles)

\* ------------------------------------------------------------------ C12
\* the staged files in the directory
StagedFiles == {x \in DOMAIN dir : IsStaged(x, "_SPLIT") \/ IsStaged(x, "_CROP")}

\* C12: a commit I/O failure on one staged file is fatal for that file only:
\* once the failure has happened, the files committed before it are
\* committed (their staged copy is gone and their target is there), and every
\* staged file but the failing one gets committed too, so at most the failing
\* file is left staged
C12_FailureIsForThatFileOnly ==
  pc = "aborted" =>
    /\ \A x \in StagedFiles : x \in pending
    /\ Cardinality(StagedFiles) <= 1

\* ------------------------------------------------------------------ C13
\* the writing phase of a stage: split() walks the stems, or the crop
\* workers run
WorkerPhase == pc \in {"split", "cropjoin"}

Canonical(x) == ~IsStaged(x, "_SPLIT") /\ ~IsStaged(x, "_CROP")

\* the names the step wrote: new in the directory, or there with other content
Written == {x \in DOMAIN dir' : x \notin DOMAIN dir \/ dir'[x] # dir[x]}

\* C13: while a stage writes, before its commit, every write goes to a
\* staged name (the target name with the stage's suffix): a crop worker
\* writes only the staged name of its own file, no staged file is written a
\* second time, by another worker or for another target, and no file with
\* a canonical name is created, changed or deleted.
C13_WritesOnlyStaged ==
  [][WorkerPhase =>
       /\ \A x \in DOMAIN dir : x \in DOMAIN dir'
       /\ \A x \in Written : ~Canonical(x) /\ x \notin DOMAIN dir
       /\ pc = "split" => \A x \in Written : IsStaged(x, "_SPLIT")
       /\ \A stem \in DOMAIN splitlog' :
            \A i, j \in 1..Len(splitlog'[stem].plan) :
              i # j => splitlog'[stem].plan[i].rname # splitlog'[stem].plan[j].rname
       /\ \A name \in DOMAIN processes :
            (pc = "cropjoin" /\ processes[name] = "running"
               /\ processes'[name] = "done")
              => Written \subseteq {Staged(name, "_CROP")}]_vars

\* a crop worker has written its staged file while another still runs,
\* in a run whose split stage wrote staged files too
C13_Witness ==
  /\ pc = "cropjoin"
  /\ \E x \in DOMAIN processes :
       processes[x] = "done" /\ Staged(x, "_CROP") \in DOMAIN dir
  /\ \E y \in DOMAIN processes : processes[y] = "running"
  /\ \E stem \in DOMAIN splitlog : Len(splitlog[stem].plan) > 1

\* ------------------------------------------------------------------ C14
\* the positions j at which name splits into a leading run name[1..j-1] and
\* a remainder name[j..] that is all digits
DigitSplits(name) ==
  {j \in 2..Len(name) : \A k \in j..Len(name) : IsDigit(name[k])}

\* C14: for every file name <stem><digits>.pdf the classifier returns the
\* stem (the shortest leading run such that the rest is all digits up to
\* .pdf) and the digits as an integer; for every name with no trailing
\* digits it returns the name without its extension and the ordinal 0.
C14_Classifier ==
  pc = "split" =>
    \A i \in 1..Len(file_info) :
      LET name == file_info[i].name IN
        IF DigitSplits(name) # {}
        THEN LET j == Min(DigitSplits(name)) IN
               /\ StemOf(name) = SubSeq(name, 1, j - 1)
               /\ SubSeq(name, 1, j - 1) \in todo
               /\ get_filedigit(file_info[i]) = ParseInt(SubSeq(name, j, Len(name)))
        ELSE ~IsDigit(name[Len(name)]) =>
               /\ StemOf(name) = name
               /\ name \in todo
               /\ get_filedigit(file_info[i]) = 0

\* ------------------------------------------------------------------ C15
\* the response gives four values whose sum is not zero
NonZeroSum(out) ==
  /\ ~NoBox(out)
  /\ Len(First4(out)) = 4
  /\ First4(out)[1].val + First4(out)[2].val + First4(out)[3].val + First4(out)[4].val # 0

\* the marker is written by crop_process only: a file that bears it is a
\* file of the input directory that was marked and has not been rewritten, or
\* the output of a crop worker, staged or committed; split output never
\* bears it
MarkedByCropOnly ==
  \A x \in DOMAIN dir :
    /\ IsStaged(x, "_SPLIT") => ~dir[x].cropped
    /\ (x \in Targets /\ pc = "crop") => ~dir[x].cropped
    /\ dir[x].cropped =>
         \/ x \in DOMAIN dir0 /\ dir0[x].cropped /\ dir[x] = dir0[x]
         \/ IsStaged(x, "_CROP") /\ Unstaged(x) \in DOMAIN gsout
                                /\ Usable(gsout[Unstaged(x)])
         \/ x \in DOMAIN gsout /\ Usable(gsout[x]) /\ CropCommitting

\* C15 as it is stated: every selected file for which Ghostscript returns
\* four numeric values with a non-zero sum is, after the crop commit, replaced
\* by its staged cropped version and bears the marker; the marker is written
\* by the crop executor only.
C15_NonZeroSumCropped ==
  /\ pc = "done" =>
       \A x \in DOMAIN gsout :
         NonZeroSum(gsout[x]) =>
           /\ x \in DOMAIN dir
           /\ dir[x] = CroppedFile(dirc[x], gsout[x])
           /\ dir[x].cropped
  /\ MarkedByCropOnly

\* C15, amended: every selected file for which Ghostscript returns four
\* numeric values whose sum, truncated to an integer, is not zero is, after
\* the crop commit, replaced by its staged cropped version and bears the
\* marker (a sum strictly between -1 and 1 counts as degenerate and leaves
\* the file as it was); the marker is written by the crop executor only.
C15_IntSumCropped ==
  /\ pc = "done" =>
       \A x \in DOMAIN gsout :
         /\ Usable(gsout[x]) =>
              /\ x \in DOMAIN dir
              /\ dir[x] = CroppedFile(dirc[x], gsout[x])
              /\ dir[x].cropped
         /\ (NonZeroSum(gsout[x]) /\ ~Usable(gsout[x])) =>
              x \in DOMAIN dir /\ dir[x] = dirc[x]
  /\ MarkedByCropOnly

\* a run is over in which split wrote two files, and of the two the crop
\* stage replaced one by its cropped version and left the other, whose
\* response summed to one half, as it was
C15_Witness ==
  /\ pc = "done"
  /\ Cardinality(Targets) >= 2
  /\ \E x \in Targets : x \in DOMAIN gsout /\ Usable(gsout[x]) /\ dir[x].cropped
  /\ \E y \in Targets : /\ y \in DOMAIN gsout
                        /\ NonZeroSum(gsout[y]) /\ ~Usable(gsout[y])
                        /\ ~dir[y].cropped

\* ------------------------------------------------------------------ C16
\* the members of the stem have the ordinals 0..n-1: the base file is there
\* and there is no gap
Contiguous(stem) ==
  LET M == Members(stem) IN
    /\ M # <<>>
    /\ \A i \in 1..Len(M) : Ord(M[i]) = i - 1

\* C16: for a stem whose members have ordinals exactly 0..n-1, each with at
\* least one page and at least one with more than one, after split() and its
\* commit the stem consists of exactly P one-page files with the ordinals
\* 0..P-1, P being the total page count, and the file at ordinal k holds the
\* k-th page of the original stream.
C16_ContiguousStemSplit ==
  (~nosplit /\ pc \in {"crop", "cropjoin"}) =>
    \A stem \in get_stems(DOMAIN dir0) :
      (Contiguous(stem) /\ FirstMulti(stem) # 0) =>
        LET S == StemFiles(dir, stem)
            orig == Stream(dir0, stem)
        IN /\ Cardinality(S) = Len(orig)
           /\ {Ord(x) : x \in S} = 0..(Len(orig) - 1)
           /\ \A x \in S : dir[x].pages = <<orig[Ord(x) + 1]>>

\* split() and its commit are over for a stem of three members a.pdf, a1.pdf,
\* a2.pdf of which the second is the first with more than one page
C16_Witness ==
  /\ ~nosplit /\ pc = "crop"
  /\ \E stem \in get_stems(DOMAIN dir0) :
       /\ Contiguous(stem)
       /\ Len(Members(stem)) = 3
       /\ FirstMulti(stem) = 2
       /\ Cardinality(StemFiles(dir, stem)) > 3

\* ------------------------------------------------------------------ C17
\* C17: the crop stage never changes the number of pages of a file: every
\* file in the directory at the start of crop() is there after the crop
\* commit with the page count it had, also when the split stage was disabled
\* and the directory holds files of more than one page.
C17_CropKeepsPageCount ==
  pc = "done" =>
    \A x \in DOMAIN dirc :
      x \in DOMAIN dir /\ Len(dir[x].pages) = Len(dirc[x].pages)

\* ------------------------------------------------------------------ C18
\* C18: at the moment crop() selects its files the cropped set agrees with
\* the directory, after any sequence of catalog, split and split-commit
\* steps: the name of a .pdf file is in the cropped set if and only if the
\* file on disk under that name bears the cropped marker, and the set holds
\* no name that is not in the directory.
C18_CroppedSetAgrees ==
  pc = "crop" =>
    /\ \A x \in DOMAIN dir : (x \in cropped) <=> dir[x].cropped
    /\ cropped \subseteq DOMAIN dir

\* crop() is about to select its files after a split that replaced a marked
\* file by split output and left another marked file as it was
C18_Witness ==
  /\ pc = "crop"
  /\ \E x \in Targets : x \in DOMAIN dir0 /\ dir0[x].cropped /\ x \notin cropped
  /\ \E y \in cropped : dir[y] = dir0[y]

====
